---- MODULE Spec2Model ----
(***************************************************************************)
(* The realm_stats management command                                      *)
(* (analytics/management/commands/realm_stats.py): a report of aggregate   *)
(* queries over the store, one block of lines per realm.                   *)
(*                                                                         *)
(* Time is counted in days.  A content is a sequence of chunks, so that    *)
(* content__contains is a search.  A line of output is a record            *)
(* [kind, id, days, v]: what the line reports, the realm it names, the     *)
(* window it is about and the numbers printed on it.                       *)
(***************************************************************************)
EXTENDS Integers, Sequences, FiniteSets

\* Bounds of the model.
MaxArgs == 2        \* realm identifiers on one command line
MaxRuns == 2        \* invocations of the command
MaxInserts == 1     \* messages other processes send meanwhile
MaxTicks == 1       \* days the clock advances meanwhile

\* The windows taken the other way round.
Windows_Reversed == <<30, 7, 1>>

\* Program constants.
MOBILE_CLIENT_LIST == <<"Android", "ios">>
HUMAN_CLIENT_LIST == MOBILE_CLIENT_LIST \o <<"website">>
Windows == <<1, 7, 30>>
ActivityDays == 7

Range(s) == {s[i] : i \in DOMAIN s}

\* ------------------------------------------------------------------ store
VARIABLES
    Realm,          \* string_id of every realm
    UserProfile,    \* [id, realm, is_active, enable_desktop_notifications, enter_sends]
    UserActivity,   \* [user_profile, last_visit, query, client]
    Message,        \* [id, sender, sending_client, recipient_type, date_sent, content]
    Stream,         \* [id, realm]
    Subscription,   \* [user_profile, recipient_type, type_id, active, is_muted, desktop_notifications]
    UserMessage,    \* [user_profile, message, starred]
    now             \* timezone_now()

\* ------------------------------------------------------------------ command
VARIABLES
    pc,                 \* where handle stands
    args,               \* options['realms']
    realms,             \* the realms handle resolved, in order
    realm_idx,          \* the realm the loop is at
    days_idx,           \* the window the inner loop is at
    user_profiles,      \* the evaluated user_profiles queryset (user ids)
    active,             \* active_users: the matching activity rows
    total_count,        \* api_messages: the result of total_messages
    all_message_count,  \* all_message_count
    output,             \* standard output
    error               \* the CommandError raised, if any

\* ------------------------------------------------------------------ history
VARIABLES
    runs,       \* invocations so far
    prev,       \* what the previous invocation was given and printed
    inserts,    \* messages sent by other processes so far
    ticks       \* days the clock advanced so far

store == <<Realm, UserProfile, UserActivity, Message, Stream, Subscription, UserMessage>>
locals == <<realms, realm_idx, days_idx, user_profiles, active, total_count, all_message_count>>
vars == <<store, now, pc, args, locals, output, error, runs, prev, inserts, ticks>>

\* ------------------------------------------------------------------ queries
Sender(users, m) == CHOOSE u \in users : u.id = m.sender

Contains(content, needle) == \E i \in DOMAIN content : content[i] = needle

Line(kind, id, days, v) == [kind |-> kind, id |-> id, days |-> days, v |-> v]

\* human_messages, the module-level queryset
HumanMessages(msgs) == {m \in msgs : m.sending_client \in Range(HUMAN_CLIENT_LIST)}

active_users(users, activity, t, realm) ==
    LET activity_cutoff == t - ActivityDays
    IN {a \in activity :
          /\ \E u \in users : u.id = a.user_profile /\ u.realm = realm /\ u.is_active
          /\ a.last_visit > activity_cutoff
          /\ a.query = "/json/users/me/pointer"
          /\ a.client = "website"}

messages_sent_by(msgs, t, user, days_ago) ==
    LET sent_time_cutoff == t - days_ago
    IN Cardinality({m \in HumanMessages(msgs) :
                      m.sender = user /\ m.date_sent > sent_time_cutoff})

total_messages(msgs, users, t, realm, days_ago) ==
    LET sent_time_cutoff == t - days_ago
    IN Cardinality({m \in msgs :
                      Sender(users, m).realm = realm /\ m.date_sent > sent_time_cutoff})

human_messages(msgs, users, t, realm, days_ago) ==
    LET sent_time_cutoff == t - days_ago
    IN Cardinality({m \in HumanMessages(msgs) :
                      Sender(users, m).realm = realm /\ m.date_sent > sent_time_cutoff})

\* The subtraction of api_messages the wrong way round.
api_messages_Swapped(total, human) == human - total

\* total_messages(...) - human_messages(...), given the results of the two queries
api_messages(total, human) == total - human

stream_messages(msgs, users, t, realm, days_ago) ==
    LET sent_time_cutoff == t - days_ago
    IN Cardinality({m \in HumanMessages(msgs) :
                      /\ Sender(users, m).realm = realm
                      /\ m.date_sent > sent_time_cutoff
                      /\ m.recipient_type = "STREAM"})

private_messages(msgs, users, t, realm, days_ago) ==
    LET sent_time_cutoff == t - days_ago
    IN Cardinality({m \in HumanMessages(msgs) :
                      /\ Sender(users, m).realm = realm
                      /\ m.date_sent > sent_time_cutoff
                      /\ m.recipient_type # "STREAM"
                      /\ m.recipient_type # "HUDDLE"})

group_private_messages(msgs, users, t, realm, days_ago) ==
    LET sent_time_cutoff == t - days_ago
    IN Cardinality({m \in HumanMessages(msgs) :
                      /\ Sender(users, m).realm = realm
                      /\ m.date_sent > sent_time_cutoff
                      /\ m.recipient_type # "STREAM"
                      /\ m.recipient_type # "PERSONAL"})

\* f"{x:.2f}" of x = 100 * n / d, d > 0: x rounded to hundredths, as
\* <<whole part, two decimals>>.  (Rounding half up and half to even differ
\* only on an exact tie, which needs d to be a multiple of 32.)
Format2f(n, d) ==
    LET hundredths == (2 * n * 10000 + d) \div (2 * d)
    IN <<hundredths \div 100, hundredths % 100>>

\* report_percentage without its test of the denominator.
report_percentage_Unguarded(numerator, denominator, text) ==
    IF denominator = 0
    THEN Line("ZeroDivisionError", "", 0, <<>>)
    ELSE Line(text, "", 0, Format2f(numerator, denominator))

report_percentage(numerator, denominator, text) ==
    LET fraction == IF denominator = 0 THEN <<0, 1>> ELSE <<numerator, denominator>>
    IN IF fraction[2] = 0
       THEN Line("ZeroDivisionError", "", 0, <<>>)
       ELSE Line(text, "", 0, Format2f(fraction[1], fraction[2]))

\* sender_quantities printed as they come, unsorted.
sorted_reverse_Unsorted(s) == s

\* sorted(sender_quantities, reverse=True)
RECURSIVE InsertDescending(_, _)
InsertDescending(x, s) ==
    IF s = <<>> THEN <<x>>
    ELSE IF x >= Head(s) THEN <<x>> \o s
    ELSE <<Head(s)>> \o InsertDescending(x, Tail(s))

RECURSIVE sorted_reverse(_)
sorted_reverse(s) ==
    IF s = <<>> THEN <<>> ELSE InsertDescending(Head(s), sorted_reverse(Tail(s)))

\* The rows of a queryset of user ids, in the order of the ids.
RECURSIVE InOrder(_)
InOrder(S) ==
    IF S = {} THEN <<>>
    ELSE LET x == CHOOSE y \in S : \A z \in S : y <= z
         IN <<x>> \o InOrder(S \ {x})

\* UserProfile.objects.filter(realm=realm, is_active=True)
ActiveProfiles(users, realm) == {u.id : u \in {w \in users : w.realm = realm /\ w.is_active}}

sender_quantities(msgs, t, profiles, days_ago) ==
    LET order == InOrder(profiles)
    IN [i \in DOMAIN order |-> messages_sent_by(msgs, t, order[i], days_ago)]

\* Stream.objects.filter(realm=realm).extra(...).annotate(...).count()
subscribed_streams(strs, subs, realm) ==
    Cardinality({s \in strs :
                   /\ s.realm = realm
                   /\ \E sub \in subs : /\ sub.recipient_type = "STREAM"
                                        /\ sub.type_id = s.id
                                        /\ sub.active})

\* len(rows) and the sum of the counts of
\* .values("user_profile").annotate(count=Count("user_profile"))
GroupedByUserProfile(rows) ==
    <<Cardinality({r.user_profile : r \in rows}), Cardinality(rows)>>

\* the same of .values("sender").annotate(count=Count("sender"))
GroupedBySender(rows) == <<Cardinality({r.sender : r \in rows}), Cardinality(rows)>>

starrers(ums, users, realm) ==
    GroupedByUserProfile(
        {um \in ums : um.user_profile \in ActiveProfiles(users, realm) /\ um.starred})

active_user_subs(subs, users, realm) ==
    {s \in subs : s.user_profile \in ActiveProfiles(users, realm) /\ s.active}

non_home_view(subs, users, realm) ==
    GroupedByUserProfile({s \in active_user_subs(subs, users, realm) : s.is_muted})

markup_messages(msgs, users, realm) ==
    GroupedBySender({m \in HumanMessages(msgs) :
                       Sender(users, m).realm = realm /\ Contains(m.content, "~~~")})

notifications(subs, users, realm) ==
    GroupedByUserProfile(
        {s \in active_user_subs(subs, users, realm) : s.desktop_notifications})

\* get_realm(string_id): the realm, or Realm.DoesNotExist
get_realm(table, string_id) ==
    IF string_id \in table
    THEN [found |-> TRUE, realm |-> string_id, e |-> <<>>]
    ELSE [found |-> FALSE, realm |-> "", e |-> <<"Realm.DoesNotExist", string_id>>]

\* raise CommandError() without the exception caught.
CommandError_NoCause(e) == <<"CommandError">>

\* raise CommandError(e): the message is that of e
CommandError(e) == <<"CommandError">> \o e

\* ------------------------------------------------------------------ fixtures
RealmIds == {"zulip", "lear"}
Identifiers == RealmIds \cup {"nope"}

User(id, realm, is_active, notify, enter) ==
    [id |-> id, realm |-> realm, is_active |-> is_active,
     enable_desktop_notifications |-> notify, enter_sends |-> enter]

Users ==
    { User(1, "zulip", TRUE, TRUE, FALSE), User(2, "zulip", TRUE, FALSE, TRUE),
      User(3, "zulip", FALSE, TRUE, TRUE), User(4, "lear", TRUE, TRUE, TRUE) }

Activity(user, last_visit, query, client) ==
    [user_profile |-> user, last_visit |-> last_visit, query |-> query, client |-> client]

Msg(id, sender, client, type, date_sent, content) ==
    [id |-> id, sender |-> sender, sending_client |-> client, recipient_type |-> type,
     date_sent |-> date_sent, content |-> content]

Sub(user, stream, is_active, muted, notify) ==
    [user_profile |-> user, recipient_type |-> "STREAM", type_id |-> stream,
     active |-> is_active, is_muted |-> muted, desktop_notifications |-> notify]

\* The clock starts at day 31: day 31 is within every window, day 28 within
\* 7 and 30 days, day 10 within 30 days, and day 0 within none.
Pointer == "/json/users/me/pointer"

ActivityBase ==
    { Activity(3, 30, Pointer, "website"), Activity(4, 30, "/json/messages", "website"),
      Activity(2, 30, Pointer, "Android"), Activity(2, 20, Pointer, "website") }
ActivityPool == { Activity(1, 30, Pointer, "website"), Activity(2, 25, Pointer, "website") }

MessagePool ==
    { Msg(1, 1, "website", "STREAM", 31, <<"hi">>),
      Msg(2, 2, "Android", "PERSONAL", 28, <<"a", "\n\n", "b">>),
      Msg(3, 2, "ios", "HUDDLE", 31, <<"~~~", "x = 1", "~~~">>),
      Msg(4, 1, "ZulipPython", "STREAM", 10, <<"deployed">>),
      Msg(5, 4, "website", "STREAM", 0, <<"old">>),
      Msg(6, 2, "website", "OTHER", 10, <<"a", "\n\n", "~~~">>) }

\* What another process may send: date_sent and id are set on arrival.
Incoming ==
    { Msg(0, 1, "website", "STREAM", 0, <<"hi">>),
      Msg(0, 2, "ZulipPython", "PERSONAL", 0, <<"a", "\n\n", "b">>) }

Streams == { [id |-> 1, realm |-> "zulip"], [id |-> 2, realm |-> "zulip"],
             [id |-> 3, realm |-> "lear"] }

Subscriptions ==
    { Sub(1, 1, TRUE, FALSE, TRUE), Sub(2, 1, TRUE, TRUE, FALSE), Sub(1, 2, FALSE, TRUE, TRUE),
      Sub(3, 1, TRUE, TRUE, TRUE), Sub(4, 3, TRUE, TRUE, TRUE) }

UserMessages ==
    { [user_profile |-> 1, message |-> 1, starred |-> TRUE],
      [user_profile |-> 1, message |-> 3, starred |-> TRUE],
      [user_profile |-> 2, message |-> 1, starred |-> FALSE],
      [user_profile |-> 3, message |-> 1, starred |-> TRUE] }

ArgLists == UNION {[1..n -> Identifiers] : n \in 0..MaxArgs}

Orderings(S) == {s \in [1..Cardinality(S) -> S] : Range(s) = S}

\* ------------------------------------------------------------------ initial state
InitCommand ==
    /\ pc = "idle" /\ args = <<>> /\ realms = <<>> /\ realm_idx = 1 /\ days_idx = 1
    /\ user_profiles = {} /\ active = {} /\ total_count = 0 /\ all_message_count = 0
    /\ output = <<>> /\ error = <<>>
    /\ runs = 0 /\ prev = [given |-> "nothing", blocks |-> {}]
    /\ inserts = 0 /\ ticks = 0

InitStore ==
    /\ Realm = RealmIds
    /\ UserProfile = Users
    /\ Stream = Streams
    /\ Subscription = Subscriptions
    /\ UserMessage = UserMessages
    /\ now = 31

Init ==
    /\ InitStore
    /\ UserActivity \in {ActivityBase, ActivityBase \cup ActivityPool}
    /\ Message \in {M \in SUBSET MessagePool : Cardinality(M) \notin 1..(Cardinality(MessagePool) - 2)}
    /\ InitCommand

InitConc ==
    /\ InitStore
    /\ UserActivity = ActivityBase \cup ActivityPool
    /\ Message \in {{}, {m \in MessagePool : m.id \in {1, 4}}}
    /\ InitCommand

\* ------------------------------------------------------------------ handle
realm == realms[realm_idx]
days_ago == Windows[days_idx]

print(lines) == output' = output \o lines

\* The blocks of an output: the lines up to each blank line.
RECURSIVE BlocksFrom(_, _)
BlocksFrom(out, block) ==
    IF out = <<>> THEN (IF block = <<>> THEN {} ELSE {block})
    ELSE IF Head(out).kind = "blank"
         THEN {Append(block, Head(out))} \cup BlocksFrom(Tail(out), <<>>)
         ELSE BlocksFrom(Tail(out), Append(block, Head(out)))

Blocks(out) == BlocksFrom(out, <<>>)

Given ==
    IF pc = "error" THEN "failed"
    ELSE IF args = <<>> THEN "all"
    ELSE IF args \in Orderings(Realm) THEN "listed"
    ELSE "other"

\* The command is run: handle(realms=a).
Invoke(a) ==
    /\ pc \in {"idle", "done", "error"}
    /\ runs < MaxRuns
    /\ runs' = runs + 1
    /\ prev' = IF pc = "idle" THEN prev ELSE [given |-> Given, blocks |-> Blocks(output)]
    /\ args' = a
    /\ pc' = IF a # <<>> THEN "resolve" ELSE "all"
    /\ realms' = <<>> /\ realm_idx' = 1 /\ days_idx' = 1
    /\ user_profiles' = {} /\ active' = {} /\ total_count' = 0 /\ all_message_count' = 0
    /\ output' = <<>> /\ error' = <<>>
    /\ UNCHANGED <<store, now, inserts, ticks>>

\* handle reporting on the realms resolved before an unknown identifier,
\* instead of raising.
HandleResolve_KeepGoing ==
    /\ pc = "resolve"
    /\ LET r == get_realm(Realm, args[Len(realms) + 1])
       IN IF r.found
          THEN /\ realms' = Append(realms, r.realm)
               /\ pc' = IF Len(realms') = Len(args) THEN "users" ELSE "resolve"
               /\ error' = error
          ELSE /\ pc' = IF realms = <<>> THEN "error" ELSE "users"
               /\ error' = IF realms = <<>> THEN CommandError(r.e) ELSE error
               /\ realms' = realms
    /\ UNCHANGED <<store, now, args, realm_idx, days_idx, user_profiles, active,
                   total_count, all_message_count, output, runs, prev, inserts, ticks>>

\* realms = [get_realm(string_id) for string_id in options['realms']], one at a time
HandleResolve ==
    /\ pc = "resolve"
    /\ LET r == get_realm(Realm, args[Len(realms) + 1])
       IN IF r.found
          THEN /\ realms' = Append(realms, r.realm)
               /\ pc' = IF Len(realms') = Len(args) THEN "users" ELSE "resolve"
               /\ error' = error
          ELSE /\ pc' = "error"
               /\ error' = CommandError(r.e)
               /\ realms' = realms
    /\ UNCHANGED <<store, now, args, realm_idx, days_idx, user_profiles, active,
                   total_count, all_message_count, output, runs, prev, inserts, ticks>>

\* handle taking one realm of the store instead of all of them.
HandleAll_First ==
    /\ pc = "all"
    /\ \E id \in Realm : realms' = <<id>>
    /\ pc' = "users"
    /\ UNCHANGED <<store, now, args, realm_idx, days_idx, user_profiles, active,
                   total_count, all_message_count, output, error, runs, prev, inserts, ticks>>

\* realms = Realm.objects.all(), evaluated by the for loop, in the store's order
HandleAll ==
    /\ pc = "all"
    /\ \E order \in Orderings(Realm) :
          /\ realms' = order
          /\ pc' = IF order = <<>> THEN "done" ELSE "users"
    /\ UNCHANGED <<store, now, args, realm_idx, days_idx, user_profiles, active,
                   total_count, all_message_count, output, error, runs, prev, inserts, ticks>>

\* lines 90-96
HandleUsers ==
    /\ pc = "users"
    /\ user_profiles' = ActiveProfiles(UserProfile, realm)
    /\ active' = active_users(UserProfile, UserActivity, now, realm)
    /\ print(<<Line("realm", realm, 0, <<>>),
               Line("active users", "", 0,
                    <<Cardinality(active'), Cardinality(user_profiles')>>)>>)
    /\ pc' = "streams"
    /\ UNCHANGED <<store, now, args, realms, realm_idx, days_idx, total_count,
                   all_message_count, error, runs, prev, inserts, ticks>>

\* lines 97-103
HandleStreams ==
    /\ pc = "streams"
    /\ print(<<Line("streams", "", 0, <<subscribed_streams(Stream, Subscription, realm)>>)>>)
    /\ pc' = "sent"
    /\ days_idx' = 1
    /\ UNCHANGED <<store, now, args, realms, realm_idx, user_profiles, active, total_count,
                   all_message_count, error, runs, prev, inserts, ticks>>

\* lines 106-110
HandleSent ==
    /\ pc = "sent"
    /\ print(<<Line("users sent", "", days_ago, <<>>),
               Line("quantities", "", days_ago,
                    sorted_reverse(sender_quantities(Message, now, user_profiles, days_ago)))>>)
    /\ pc' = "stream"
    /\ UNCHANGED <<store, now, args, locals, error, runs, prev, inserts, ticks>>

\* line 112
HandleStreamMessages ==
    /\ pc = "stream"
    /\ print(<<Line("stream messages", "", days_ago,
                    <<stream_messages(Message, UserProfile, now, realm, days_ago)>>)>>)
    /\ pc' = "private"
    /\ UNCHANGED <<store, now, args, locals, error, runs, prev, inserts, ticks>>

\* line 113
HandlePrivateMessages ==
    /\ pc = "private"
    /\ print(<<Line("one-on-one private messages", "", days_ago,
                    <<private_messages(Message, UserProfile, now, realm, days_ago)>>)>>)
    /\ pc' = "api_total"
    /\ UNCHANGED <<store, now, args, locals, error, runs, prev, inserts, ticks>>

\* line 114, the first query of api_messages
HandleApiTotal ==
    /\ pc = "api_total"
    /\ total_count' = total_messages(Message, UserProfile, now, realm, days_ago)
    /\ pc' = "api_human"
    /\ UNCHANGED <<store, now, args, realms, realm_idx, days_idx, user_profiles, active,
                   all_message_count, output, error, runs, prev, inserts, ticks>>

\* line 114, the second query of api_messages, and the print
HandleApiHuman ==
    /\ pc = "api_human"
    /\ print(<<Line("messages sent via the API", "", days_ago,
                    <<api_messages(total_count,
                                   human_messages(Message, UserProfile, now, realm, days_ago))>>)>>)
    /\ pc' = "group"
    /\ UNCHANGED <<store, now, args, locals, error, runs, prev, inserts, ticks>>

\* line 115, and the end of the loop over the windows
HandleGroupMessages ==
    /\ pc = "group"
    /\ print(<<Line("group private messages", "", days_ago,
                    <<group_private_messages(Message, UserProfile, now, realm, days_ago)>>)>>)
    /\ IF days_idx < Len(Windows)
       THEN days_idx' = days_idx + 1 /\ pc' = "sent"
       ELSE days_idx' = days_idx /\ pc' = "all_count"
    /\ UNCHANGED <<store, now, args, realms, realm_idx, user_profiles, active, total_count,
                   all_message_count, error, runs, prev, inserts, ticks>>

ProfileOf(a) == CHOOSE u \in UserProfile : u.id = a.user_profile

\* lines 117-125
HandleActivePercentages ==
    /\ pc = "all_count"
    /\ LET num_active == Cardinality(active)
           num_notifications_enabled ==
               Cardinality({x \in active : ProfileOf(x).enable_desktop_notifications})
           num_enter_sends == Cardinality({x \in active : ProfileOf(x).enter_sends})
       IN print(<<report_percentage(num_notifications_enabled, num_active,
                                    "active users have desktop notifications enabled"),
                  report_percentage(num_enter_sends, num_active,
                                    "active users have enter-sends")>>)
    /\ all_message_count' =
           Cardinality({m \in HumanMessages(Message) : Sender(UserProfile, m).realm = realm})
    /\ pc' = "multi"
    /\ UNCHANGED <<store, now, args, realms, realm_idx, days_idx, user_profiles, active,
                   total_count, error, runs, prev, inserts, ticks>>

\* The multi-paragraph query deleting the rows it should count.
HandleMultiParagraph_Deleting ==
    /\ pc = "multi"
    /\ LET multi_paragraph ==
               {m \in HumanMessages(Message) :
                  /\ Sender(UserProfile, m).realm = realm
                  /\ Contains(m.content, "\n\n")}
       IN /\ print(<<report_percentage(Cardinality(multi_paragraph), all_message_count,
                                       "all messages are multi-paragraph")>>)
          /\ Message' = Message \ multi_paragraph
    /\ pc' = "starred"
    /\ UNCHANGED <<Realm, UserProfile, UserActivity, Stream, Subscription, UserMessage,
                   now, args, locals, error, runs, prev, inserts, ticks>>

\* lines 126-129
HandleMultiParagraph ==
    /\ pc = "multi"
    /\ LET multi_paragraph_message_count ==
               Cardinality({m \in HumanMessages(Message) :
                              /\ Sender(UserProfile, m).realm = realm
                              /\ Contains(m.content, "\n\n")})
       IN print(<<report_percentage(multi_paragraph_message_count, all_message_count,
                                    "all messages are multi-paragraph")>>)
    /\ pc' = "starred"
    /\ UNCHANGED <<store, now, args, locals, error, runs, prev, inserts, ticks>>

\* lines 132-136
HandleStarred ==
    /\ pc = "starred"
    /\ print(<<Line("users have starred messages", "", 0,
                    starrers(UserMessage, UserProfile, realm))>>)
    /\ pc' = "muted"
    /\ UNCHANGED <<store, now, args, locals, error, runs, prev, inserts, ticks>>

\* lines 138-145
HandleNonHomeView ==
    /\ pc = "muted"
    /\ print(<<Line("users have streams not in home view", "", 0,
                    non_home_view(Subscription, UserProfile, realm))>>)
    /\ pc' = "code"
    /\ UNCHANGED <<store, now, args, locals, error, runs, prev, inserts, ticks>>

\* lines 148-152
HandleMarkup ==
    /\ pc = "code"
    /\ print(<<Line("users have used code block markup on messages", "", 0,
                    markup_messages(Message, UserProfile, realm))>>)
    /\ pc' = "notify"
    /\ UNCHANGED <<store, now, args, locals, error, runs, prev, inserts, ticks>>

\* lines 155-160, and the end of the loop over the realms
HandleNotifications ==
    /\ pc = "notify"
    /\ print(<<Line("users receive desktop notifications for streams", "", 0,
                    notifications(Subscription, UserProfile, realm)),
               Line("blank", "", 0, <<>>)>>)
    /\ IF realm_idx < Len(realms)
       THEN realm_idx' = realm_idx + 1 /\ pc' = "users"
       ELSE realm_idx' = realm_idx /\ pc' = "done"
    /\ UNCHANGED <<store, now, args, realms, days_idx, user_profiles, active, total_count,
                   all_message_count, error, runs, prev, inserts, ticks>>

Handle ==
    \/ HandleResolve \/ HandleAll \/ HandleUsers \/ HandleStreams
    \/ HandleSent \/ HandleStreamMessages \/ HandlePrivateMessages
    \/ HandleApiTotal \/ HandleApiHuman \/ HandleGroupMessages
    \/ HandleActivePercentages \/ HandleMultiParagraph
    \/ HandleStarred \/ HandleNonHomeView \/ HandleMarkup \/ HandleNotifications

\* ------------------------------------------------------------------ other processes
\* Another process sends a message.
InsertMessage ==
    /\ inserts < MaxInserts
    /\ \E m \in Incoming :
          Message' = Message \cup
              {[m EXCEPT !.id = Cardinality(MessagePool) + inserts + 1, !.date_sent = now]}
    /\ inserts' = inserts + 1
    /\ UNCHANGED <<Realm, UserProfile, UserActivity, Stream, Subscription, UserMessage,
                   now, pc, args, locals, output, error, runs, prev, ticks>>

\* A day passes.
Tick ==
    /\ ticks < MaxTicks
    /\ now' = now + 1
    /\ ticks' = ticks + 1
    /\ UNCHANGED <<store, pc, args, locals, output, error, runs, prev, inserts>>

\* ------------------------------------------------------------------ specifications
\* The command, run again and again on a store nothing else touches.
Next == (\E a \in ArgLists : Invoke(a)) \/ Handle

Spec == Init /\ [][Next]_vars

\* One run of the command, while other processes send messages
\* and time passes.
NextConc ==
    \/ \E a \in {<<>>, <<"zulip">>, <<"nope">>} : runs = 0 /\ Invoke(a)
    \/ Handle
    \/ InsertMessage
    \/ Tick

SpecConc == InitConc /\ [][NextConc]_vars

\* ------------------------------------------------------------------ reading the output
HumanClients == {"Android", "ios", "website"}
Started == pc # "idle"
Unknown(a) == {i \in DOMAIN a : a[i] \notin Realm}
FirstUnknown(a) == CHOOSE i \in Unknown(a) : \A j \in Unknown(a) : i <= j
Lines(kind) == {i \in DOMAIN output : output[i].kind = kind}

\* The realm whose block line i of the output belongs to.
RealmAt(i) ==
    output[CHOOSE j \in 1..i : /\ output[j].kind = "realm"
                               /\ \A k \in (j + 1)..i : output[k].kind # "realm"].id

\* The "active users" line of the block line i belongs to.
ActiveUsersAt(i) ==
    output[CHOOSE j \in 1..i : /\ output[j].kind = "active users"
                               /\ \A k \in (j + 1)..i : output[k].kind # "active users"]

SentInWindow(r, d) ==
    {m \in Message : /\ \E u \in UserProfile : u.id = m.sender /\ u.realm = r
                     /\ m.date_sent > now - d}

\* ------------------------------------------------------------------ claims

\* C1: a run given a list with an unknown identifier in it, wherever it
\* stands, prints nothing, not even for the realms listed before it, and
\* can only end in a command error.
C1_UnknownRealmPrintsNothing ==
    (Started /\ Unknown(args) # {}) =>
        /\ output = <<>>
        /\ pc \in {"resolve", "error"}
        /\ pc = "error" => (error # <<>> /\ Head(error) = "CommandError")

C1_Witness ==
    /\ pc = "error" /\ Len(args) = 2 /\ args[1] \in Realm /\ args[2] \notin Realm
    /\ output = <<>>

\* C2: for every realm and window, the stream, one-on-one and group counts
\* add up to at most the human count.
C2_CategoriesWithinHuman ==
    \A r \in Realm : \A i \in DOMAIN Windows :
        stream_messages(Message, UserProfile, now, r, Windows[i])
          + private_messages(Message, UserProfile, now, r, Windows[i])
          + group_private_messages(Message, UserProfile, now, r, Windows[i])
        <= human_messages(Message, UserProfile, now, r, Windows[i])

\* C3: for every realm and each window of 1, 7 and 30 days the total is the
\* human count plus the API count, the human count being that of the messages
\* sent from Android, ios or website; the API count printed is that difference.
C3_TotalIsHumanPlusApi ==
    /\ \A r \in Realm : \A d \in {1, 7, 30} :
          LET total == total_messages(Message, UserProfile, now, r, d)
              human == human_messages(Message, UserProfile, now, r, d)
          IN /\ total = human + api_messages(total, human)
             /\ total = Cardinality(SentInWindow(r, d))
             /\ human = Cardinality({m \in SentInWindow(r, d) :
                                       m.sending_client \in HumanClients})
    /\ \A i \in Lines("messages sent via the API") :
          output[i].v[1] + Cardinality({m \in SentInWindow(RealmAt(i), output[i].days) :
                                          m.sending_client \in HumanClients})
            = Cardinality(SentInWindow(RealmAt(i), output[i].days))

C3_Witness ==
    \E i \in Lines("messages sent via the API") :
        /\ output[i].v[1] > 0
        /\ output[i].v[1] < Cardinality(SentInWindow(RealmAt(i), output[i].days))

\* C4: a percentage over a denominator of 0 is printed as 0.00%, whatever the
\* numerator, and is never a division fault, at each of the three call sites.
C4_ZeroDenominatorIsZeroPercent ==
    /\ Lines("ZeroDivisionError") = {}
    /\ \A n \in 0..(Cardinality(Message) + 1) :
          report_percentage(n, 0, "text") = Line("text", "", 0, <<0, 0>>)
    /\ \A i \in Lines("active users have desktop notifications enabled")
                  \cup Lines("active users have enter-sends") :
          ActiveUsersAt(i).v[1] = 0 => output[i].v = <<0, 0>>
    /\ \A i \in Lines("all messages are multi-paragraph") :
          {m \in Message : /\ m.sending_client \in HumanClients
                           /\ \E u \in UserProfile : u.id = m.sender /\ u.realm = RealmAt(i)} = {}
            => output[i].v = <<0, 0>>

C4_Witness ==
    /\ \E i \in Lines("active users have enter-sends") :
          ActiveUsersAt(i).v[1] = 0 /\ output[i].v = <<0, 0>>
    /\ \E i \in Lines("all messages are multi-paragraph") :
          /\ output[i].v = <<0, 0>>
          /\ ~ \E m \in Message : m.sending_client \in HumanClients
    /\ \E i \in Lines("active users have desktop notifications enabled") :
          ActiveUsersAt(i).v[1] > 0

\* C5: on the same store, a run given no identifier and a run given every
\* known identifier once print the same blocks: the same realms, with the
\* same numbers for each.
C5_EmptyListIsEveryRealm ==
    (pc = "done" /\ <<prev.given, Given>> \in {<<"all", "listed">>, <<"listed", "all">>}) =>
        /\ Blocks(output) = prev.blocks
        /\ {b[1].id : b \in Blocks(output)} = Realm

C5_Witness ==
    /\ pc = "done" /\ prev.given = "all" /\ Given = "listed"
    /\ Cardinality(Blocks(output)) = 2

\* C6: no step of the command, in a run that succeeds or in one that an
\* unknown realm aborts, changes any record of the store.
C6_ReadOnly == [][UNCHANGED store]_vars

C6_Witness == pc = "done" /\ output # <<>> /\ prev.given = "failed"

BlockShape(id) ==
    LET Window(d) ==
            << <<"users sent", "", d>>, <<"quantities", "", d>>,
               <<"stream messages", "", d>>, <<"one-on-one private messages", "", d>>,
               <<"messages sent via the API", "", d>>, <<"group private messages", "", d>> >>
    IN << <<"realm", id, 0>>, <<"active users", "", 0>>, <<"streams", "", 0>> >>
       \o Window(1) \o Window(7) \o Window(30)
       \o << <<"active users have desktop notifications enabled", "", 0>>,
             <<"active users have enter-sends", "", 0>>,
             <<"all messages are multi-paragraph", "", 0>>,
             <<"users have starred messages", "", 0>>,
             <<"users have streams not in home view", "", 0>>,
             <<"users have used code block markup on messages", "", 0>>,
             <<"users receive desktop notifications for streams", "", 0>>,
             <<"blank", "", 0>> >>

RECURSIVE ReportShape(_)
ReportShape(ids) ==
    IF ids = <<>> THEN <<>> ELSE BlockShape(Head(ids)) \o ReportShape(Tail(ids))

Shape(out) == [i \in DOMAIN out |-> <<out[i].kind, out[i].id, out[i].days>>]

C8_BlocksInOrder ==
    (Started /\ pc \notin {"resolve", "all", "error"}) =>
        LET expected == ReportShape(IF args # <<>> THEN args ELSE realms)
        IN /\ Len(output) <= Len(expected)
           /\ Shape(output) = SubSeq(expected, 1, Len(output))
           /\ pc = "done" => Len(output) = Len(expected)

C8_Witness == pc = "done" /\ Len(args) = 2 /\ args[1] # args[2] /\ Len(output) > 0

\* C9: each line of per-user counts has one entry per active user profile of
\* the realm, the number of messages the user sent from a human client in the
\* window (0 for a user who sent none), largest first.
C9_PerUserCountsDescending ==
    \A i \in Lines("quantities") :
        LET v == output[i].v
            profiles == {u \in UserProfile : u.realm = RealmAt(i) /\ u.is_active}
            Sent(u) == Cardinality({m \in Message : /\ m.sender = u.id
                                                    /\ m.sending_client \in HumanClients
                                                    /\ m.date_sent > now - output[i].days})
        IN /\ Len(v) = Cardinality(profiles)
           /\ \A k \in 1..(Len(v) - 1) : v[k] >= v[k + 1]
           /\ \A n \in Range(v) \cup {Sent(u) : u \in profiles} :
                 Cardinality({k \in DOMAIN v : v[k] = n})
                   = Cardinality({u \in profiles : Sent(u) = n})

C9_Witness ==
    \E i \in Lines("quantities") :
        Len(output[i].v) = 2 /\ output[i].v[1] > output[i].v[2] /\ output[i].v[2] > 0

\* C10: the API count printed is never negative, whatever other processes
\* send and however the clock advances between the two queries behind it
\* (a number of messages is never negative).
C10_ApiCountNeverNegative ==
    \A i \in Lines("messages sent via the API") : output[i].v[1] >= 0

====
